---- MODULE Spec2Model ----
(***************************************************************************)
(* State-query layer of the devnet JSON-RPC server                         *)
(* (crates/starknet-server/src/api/json_rpc/endpoints.rs).                 *)
(*                                                                         *)
(* Every read endpoint of JsonRpcHandler is an operation of a query task.  *)
(* A backed endpoint waits for the ledger's reader-writer lock, runs one   *)
(* backend operation under it and translates the outcome; a stub endpoint  *)
(* answers at once.  The ledger itself (blocks, classes, contracts) and    *)
(* the execution engine live in other crates: they are modelled from the   *)
(* specification and their failures are nondeterministic choices.          *)
(***************************************************************************)
EXTENDS Integers, Sequences, FiniteSets, TLC

\* ---- bounds of the model ------------------------------------------------
MaxBlocks == 1     \* the ledger holds at most this many blocks
MaxChanges == 2    \* change entries of a generated state update
NumTasks == 2      \* query tasks in flight at the same time

Tasks == 1..NumTasks

\* ---- felt-typed values ----------------------------------------------------
\* Each role a felt plays has its own names, so that a value which lands in
\* the wrong field is a different value.
Addresses == {"A", "B"}
ClassHashes == {"C", "D"}
CompiledClassHashes == {"CC", "CD"}
StorageKeys == {"K", "L"}
StorageValues == {"V", "W"}
Nonces == {"n1", "n2"}

\* ---- request types (api::models) ------------------------------------------
\* BlockId wire forms: "latest", "pending", {block_hash}, {block_number}.
BlockId(form, v) == [form |-> form, v |-> v]

ApiBlockIds ==
    {BlockId("latest", 0), BlockId("pending", 0)}
        \cup {BlockId("block_hash", h) : h \in 1..(MaxBlocks + 1)}
        \cup {BlockId("block_number", n) : n \in 0..MaxBlocks}

\* block_id.into(): the API BlockId as the backend's BlockId (Tag | Hash | Number).
IntoBlockId(b) ==
    CASE b.form = "latest" -> [kind |-> "Tag", tag |-> "Latest", v |-> 0]
      [] b.form = "pending" -> [kind |-> "Tag", tag |-> "Pending", v |-> 0]
      [] b.form = "block_hash" -> [kind |-> "Hash", tag |-> "-", v |-> b.v]
      [] b.form = "block_number" -> [kind |-> "Number", tag |-> "-", v |-> b.v]

\* ---- results and errors -----------------------------------------------------
Ok(v) == [tag |-> "Ok", val |-> v]
Err(e) == [tag |-> "Err", val |-> e]

\* starknet_core::error::Error, as far as the endpoints tell its variants apart:
\* the variant, the nested TransactionError variant and the nested StateError one.
CoreError(variant, inner, cause) == [variant |-> variant, inner |-> inner, cause |-> cause]

NoBlock == CoreError("NoBlock", "-", "-")
NoneContractState == CoreError("TransactionError", "State", "NoneContractState")
BlockIdHashUnimplementedError == CoreError("BlockIdHashUnimplementedError", "-", "-")
BlockIdNumberUnimplementedError == CoreError("BlockIdNumberUnimplementedError", "-", "-")
NoCause == CoreError("-", "-", "-")

\* Failures of the backend or the engine that no endpoint singles out.
OtherFailures ==
    {CoreError("TransactionError", "State", "NoneClassHash"),
     CoreError("TransactionError", "Other", "-"),
     CoreError("StateError", "NoneContractState", "-")}

\* json_rpc::error::ApiError; only StarknetDevnetError carries a cause.
ApiError(name) == [error |-> name, cause |-> NoCause]
StarknetDevnetError(e) == [error |-> "StarknetDevnetError", cause |-> e]

\* ---- the ledger (StateBackend) ------------------------------------------------
\* The backend keeps each per-category change set of a block as a map.  A map is
\* written here as the sequence of its entries in the order the map enumerates
\* them; no key occurs twice.
Keys(m) == {m[i][1] : i \in DOMAIN m}

Range(s) == {s[i] : i \in DOMAIN s}

EmptyUpdate ==
    [deployed_contracts |-> <<>>,
     declared_classes |-> <<>>,
     cairo_0_declared_classes |-> <<>>,
     nonces |-> <<>>,
     storage_updates |-> <<>>]

InsertAt(s, i, e) == SubSeq(s, 1, i - 1) \o <<e>> \o SubSeq(s, i, Len(s))

\* Every way the map m can enumerate its entries once e is added to it.
WithEntry(m, e) == {InsertAt(m, i, e) : i \in 1..(Len(m) + 1)}

IndexOfKey(m, k) == CHOOSE i \in DOMAIN m : m[i][1] = k

\* One state change of a transaction: a deployment, a declaration (Sierra or
\* legacy), a nonce update or a storage write.
Changes ==
    [kind : {"deploy"}, a : Addresses, b : ClassHashes, c : {"-"}]
        \cup [kind : {"declare"}, a : ClassHashes, b : CompiledClassHashes, c : {"-"}]
        \cup [kind : {"declare0"}, a : ClassHashes, b : {"-"}, c : {"-"}]
        \cup [kind : {"nonce"}, a : Addresses, b : Nonces, c : {"-"}]
        \cup [kind : {"store"}, a : Addresses, b : StorageKeys, c : StorageValues]

\* The change sets a block's state update can hold after the change ch on top of
\* u.  Storage writes are grouped by contract address, so an address enters
\* storage_updates with its first written key.
Applied(u, ch) ==
    CASE ch.kind = "deploy" ->
           IF ch.a \in Keys(u.deployed_contracts) THEN {}
           ELSE {[u EXCEPT !.deployed_contracts = m] :
                    m \in WithEntry(u.deployed_contracts, <<ch.a, ch.b>>)}
      [] ch.kind = "declare" ->
           IF ch.a \in Keys(u.declared_classes) \cup Range(u.cairo_0_declared_classes)
           THEN {}
           ELSE {[u EXCEPT !.declared_classes = m] :
                    m \in WithEntry(u.declared_classes, <<ch.a, ch.b>>)}
      [] ch.kind = "declare0" ->
           IF ch.a \in Keys(u.declared_classes) \cup Range(u.cairo_0_declared_classes)
           THEN {}
           ELSE {[u EXCEPT !.cairo_0_declared_classes = m] :
                    m \in WithEntry(u.cairo_0_declared_classes, ch.a)}
      [] ch.kind = "nonce" ->
           IF ch.a \in Keys(u.nonces) THEN {}
           ELSE {[u EXCEPT !.nonces = m] : m \in WithEntry(u.nonces, <<ch.a, ch.b>>)}
      [] ch.kind = "store" ->
           IF ch.a \in Keys(u.storage_updates)
           THEN LET i == IndexOfKey(u.storage_updates, ch.a)
                    writes == u.storage_updates[i][2]
                IN  IF ch.b \in Keys(writes) THEN {}
                    ELSE {[u EXCEPT !.storage_updates[i] = <<ch.a, w>>] :
                             w \in WithEntry(writes, <<ch.b, ch.c>>)}
           ELSE {[u EXCEPT !.storage_updates = m] :
                    m \in WithEntry(u.storage_updates, <<ch.a, <<<<ch.b, ch.c>>>>>>)}

RECURSIVE UpdatesOfSize(_)
UpdatesOfSize(n) ==
    IF n = 0 THEN {EmptyUpdate}
    ELSE UNION {Applied(u, ch) : u \in UpdatesOfSize(n - 1), ch \in Changes}

\* Every state update of at most MaxChanges change entries.
RawUpdates == UNION {UpdatesOfSize(n) : n \in 0..MaxChanges}

RECURSIVE SumLen(_)
SumLen(m) == IF m = <<>> THEN 0 ELSE Len(Head(m)[2]) + SumLen(Tail(m))

\* Number of change entries of a state update.
UpdateSize(u) ==
    Len(u.deployed_contracts) + Len(u.declared_classes)
        + Len(u.cairo_0_declared_classes) + Len(u.nonces) + SumLen(u.storage_updates)

\* The scenario of the specification: contract A deployed at class C, storage
\* key K = V, nonce n1, nothing declared (class C is known from genesis).
ScenarioUpdate ==
    [EmptyUpdate EXCEPT !.deployed_contracts = << <<"A", "C">> >>,
                        !.nonces = << <<"A", "n1">> >>,
                        !.storage_updates = << <<"A", << <<"K", "V">> >> >> >>]

\* A block that declares class D (Sierra) and deploys contract B at it.
DeclareUpdate ==
    [EmptyUpdate EXCEPT !.declared_classes = << <<"D", "CD">> >>,
                        !.deployed_contracts = << <<"B", "D">> >>]

ScriptedUpdates == {ScenarioUpdate, DeclareUpdate}

\* Classes the ledger knows from genesis, before any block declares one.
PredeclaredClasses == {"C"}

\* The chain the node is configured for.
ConfiguredChain == "TestNet"

\* ---- state ----------------------------------------------------------------------
VARIABLES
    blocks,        \* the ledger's blocks, oldest first
    chain,         \* the configured chain identifier
    class_cache,   \* class hashes whose compiled artifact is materialized
    builds,        \* class hash -> number of times its artifact was built
    readers,       \* tasks holding shared access to the ledger
    writer,        \* the task holding exclusive access, or 0
    queue,         \* tasks awaiting access, in the order they asked for it
    pc,            \* task -> "idle" | "waiting" | "holding" | "miss" | "loaded" | "done"
    req,           \* task -> the request it serves
    res,           \* task -> the response it returns
    acquired,      \* task -> times its request was granted access to the ledger
    ops,           \* task -> backend operations its request has invoked
    entry          \* task -> ledger and cache as its guard found them, while held

vars ==
    <<blocks, chain, class_cache, builds, readers, writer, queue, pc, req, res,
      acquired, ops, entry>>

\* ---- StateBackend queries -----------------------------------------------------
BlockHashOf(i) == i
RootOf(i) == 100 + i

\* The block mined on top of i - 1 blocks with the state update u.
NewBlock(i, u) ==
    [block_hash |-> BlockHashOf(i),
     old_root |-> RootOf(i - 1),
     new_root |-> RootOf(i),
     transactions |-> IF u = EmptyUpdate THEN 0 ELSE 1,
     update |-> u]

\* Index in bs of the block the identifier names, 0 if it names none.
ResolveBlock(bs, id) ==
    CASE id.kind = "Tag" -> Len(bs)
      [] id.kind = "Hash" ->
           IF \E i \in DOMAIN bs : bs[i].block_hash = id.v
           THEN CHOOSE i \in DOMAIN bs : bs[i].block_hash = id.v
           ELSE 0
      [] id.kind = "Number" -> IF id.v < Len(bs) THEN id.v + 1 ELSE 0

\* Contracts deployed and classes declared by the first n blocks.
DeployedBy(bs, n) == UNION {Keys(bs[i].update.deployed_contracts) : i \in 1..n}

DeclaredBy(bs, n) ==
    PredeclaredClasses
        \cup UNION {Keys(bs[i].update.declared_classes)
                      \cup Range(bs[i].update.cairo_0_declared_classes) : i \in 1..n}

ClassHashOf(bs, n, address) ==
    LET i == CHOOSE j \in 1..n : address \in Keys(bs[j].update.deployed_contracts)
        m == bs[i].update.deployed_contracts
    IN  m[IndexOfKey(m, address)][2]

ContractNotFound == CoreError("ContractNotFound", "-", "-")
ClassNotFound == CoreError("StateError", "NoneContractClass", "-")

\* Starknet::block_state_update.  fault is the failure that strikes the backend
\* once the block is found, NoCause if none does.
block_state_update(bs, id, fault) ==
    LET i == ResolveBlock(bs, id)
    IN  IF i = 0 THEN Err(NoBlock)
        ELSE IF fault # NoCause THEN Err(fault)
        ELSE Ok([block_hash |-> bs[i].block_hash,
                 new_root |-> bs[i].new_root,
                 old_root |-> bs[i].old_root,
                 deployed_contracts |-> bs[i].update.deployed_contracts,
                 declared_classes |-> bs[i].update.declared_classes,
                 cairo_0_declared_classes |-> bs[i].update.cairo_0_declared_classes,
                 nonces |-> bs[i].update.nonces,
                 storage_updates |-> bs[i].update.storage_updates])

\* Starknet::get_block_txs_count
backend_get_block_txs_count(bs, id, fault) ==
    LET i == ResolveBlock(bs, id)
    IN  IF i = 0 THEN Err(NoBlock)
        ELSE IF fault # NoCause THEN Err(fault)
        ELSE Ok(bs[i].transactions)

\* Starknet::block_number
backend_block_number(bs) == IF bs = <<>> THEN 0 ELSE Len(bs) - 1

\* Starknet::get_class_hash_at
backend_get_class_hash_at(bs, id, address) ==
    LET i == ResolveBlock(bs, id)
    IN  IF i = 0 THEN Err(NoBlock)
        ELSE IF address \notin DeployedBy(bs, i) THEN Err(ContractNotFound)
        ELSE Ok(ClassHashOf(bs, i, address))

\* The class a get_class / get_class_at request asks for: the lookup that
\* precedes the load of its compiled artifact.
ClassLookup(bs, r) ==
    LET i == ResolveBlock(bs, IntoBlockId(r.block_id))
        found == IF r.endpoint = "get_class" THEN Ok(r.arg)
                 ELSE backend_get_class_hash_at(bs, IntoBlockId(r.block_id), r.arg)
    IN  IF i = 0 THEN Err(NoBlock)
        ELSE IF found.tag = "Err" THEN found
        ELSE IF found.val \notin DeclaredBy(bs, i) THEN Err(ClassNotFound)
        ELSE found

\* Starknet::call with the execution engine behind it.  engine is what the
\* engine answers when it gets to run the entry point.
backend_call(bs, id, address, engine) ==
    CASE id.kind = "Hash" -> Err(BlockIdHashUnimplementedError)
      [] id.kind = "Number" -> Err(BlockIdNumberUnimplementedError)
      [] id.kind = "Tag" ->
           IF address \notin DeployedBy(bs, Len(bs)) THEN Err(NoneContractState)
           ELSE engine

\* What the engine can answer: a return vector or a failure.
EngineOutcomes ==
    {Ok(<<>>), Ok(<<"V", "W">>)}
        \cup {Err(e) : e \in OtherFailures \cup {NoneContractState}}

\* Failures of a backend query once its block is found: none, or a state error.
BackendFaults == {NoCause, CoreError("StateError", "NoneStorage", "-")}

\* ChainId::to_felt: the ASCII bytes of the chain's name, most significant first.
ChainIdToFelt(c) ==
    CASE c = "MainNet" -> <<83, 78, 95, 77, 65, 73, 78>>
      [] c = "TestNet" -> <<83, 78, 95, 71, 79, 69, 82, 76, 73>>

HexDigit(n) ==
    <<"0", "1", "2", "3", "4", "5", "6", "7", "8", "9", "a", "b", "c", "d", "e", "f">>[n + 1]

RECURSIVE HexOfBytes(_)
HexOfBytes(bytes) ==
    IF bytes = <<>> THEN <<>>
    ELSE <<HexDigit(Head(bytes) \div 16), HexDigit(Head(bytes) % 16)>>
            \o HexOfBytes(Tail(bytes))

RECURSIVE StripZeros(_)
StripZeros(digits) ==
    IF Len(digits) > 1 /\ Head(digits) = "0" THEN StripZeros(Tail(digits)) ELSE digits

\* Felt::to_prefixed_hex_str: "0x", then the digits without leading zeros.
ToPrefixedHexStr(felt) ==
    <<"0", "x">> \o StripZeros(IF felt = <<>> THEN <<"0">> ELSE HexOfBytes(felt))

\* ---- response types (api::models) -----------------------------------------------
\* The hex wrappers hold the felt they are built from; they differ in type only.
ContractAddressHex(felt) == [hex |-> "ContractAddressHex", felt |-> felt]
FeltHex(felt) == [hex |-> "FeltHex", felt |-> felt]
PatriciaKeyHex(felt) == [hex |-> "PatriciaKeyHex", felt |-> felt]

\* ---- JsonRpcHandler: stub endpoints ---------------------------------------------
get_block_with_tx_hashes(block_id) == Err(ApiError("BlockNotFound"))

get_block_with_full_txs(block_id) == Err(ApiError("BlockNotFound"))

get_storage_at(contract_address, key, block_id) == Err(ApiError("ContractNotFound"))

get_transaction_by_hash(transaction_hash) == Err(ApiError("TransactionNotFound"))

get_transaction_by_block_id_and_index(block_id, index) ==
    Err(ApiError("InvalidTransactionIndexInBlock"))

get_transaction_receipt_by_hash(transaction_hash) == Err(ApiError("TransactionNotFound"))

estimate_fee(block_id, request) == Err(ApiError("ContractError"))

block_hash_and_number == Err(ApiError("NoBlocks"))

pending_transactions == Ok(<<>>)

\* syncing left unimplemented like its neighbours.
syncing_unimplemented == Err(ApiError("NoBlocks"))

syncing == Ok([SyncingOutput |-> "False", value |-> FALSE])

get_events(filter) == Err(ApiError("InvalidContinuationToken"))

\* get_nonce once backed by a contract lookup that fails on the contract.
get_nonce_by_contract(block_id, contract_address) == Err(ApiError("ContractNotFound"))

get_nonce(block_id, contract_address) == Err(ApiError("BlockNotFound"))

\* ---- JsonRpcHandler: get_state_update ---------------------------------------------
\* The closure without its NoBlock arm.
StateUpdateErrorUnclassified(err) == StarknetDevnetError(err)

\* The closure answering every failure as a missing block.
StateUpdateErrorAllNotFound(err) == ApiError("BlockNotFound")

\* The map_err closure over the backend's error.
StateUpdateError(err) ==
    IF err = NoBlock THEN ApiError("BlockNotFound") ELSE StarknetDevnetError(err)

DeployedContracts(m) ==
    [i \in 1..Len(m) |->
        [address |-> ContractAddressHex(m[i][1]), class_hash |-> m[i][2]]]

DeclaredClasses(m) ==
    [i \in 1..Len(m) |->
        [class_hash |-> m[i][1], compiled_class_hash |-> FeltHex(m[i][2])]]

ContractNonces(m) ==
    [i \in 1..Len(m) |->
        [contract_address |-> ContractAddressHex(m[i][1]), nonce |-> m[i][2]]]

\* The entries with key and value in each other's field.
StorageEntriesTransposed(updates) ==
    [i \in 1..Len(updates) |->
        [key |-> PatriciaKeyHex(updates[i][2]), value |-> FeltHex(updates[i][1])]]

StorageEntries(updates) ==
    [i \in 1..Len(updates) |->
        [key |-> PatriciaKeyHex(updates[i][1]), value |-> FeltHex(updates[i][2])]]

\* One StorageDiff per written key instead of one per contract.
RECURSIVE StorageDiffsPerKey(_)
StorageDiffsPerKey(m) ==
    IF m = <<>> THEN <<>>
    ELSE [i \in 1..Len(Head(m)[2]) |->
             [address |-> ContractAddressHex(Head(m)[1]),
              storage_entries |-> StorageEntries(<<Head(m)[2][i]>>)]]
            \o StorageDiffsPerKey(Tail(m))

StorageDiffs(m) ==
    [i \in 1..Len(m) |->
        [address |-> ContractAddressHex(m[i][1]),
         storage_entries |-> StorageEntries(m[i][2])]]

\* replaced_classes filled with the block's deployments, as if every
\* deployment replaced a class.
ThinStateDiffReplacing(state_update) ==
    [deployed_contracts |-> DeployedContracts(state_update.deployed_contracts),
     declared_classes |-> DeclaredClasses(state_update.declared_classes),
     deprecated_declared_classes |-> state_update.cairo_0_declared_classes,
     nonces |-> ContractNonces(state_update.nonces),
     storage_diffs |-> StorageDiffs(state_update.storage_updates),
     replaced_classes |-> DeployedContracts(state_update.deployed_contracts)]

ThinStateDiff(state_update) ==
    [deployed_contracts |-> DeployedContracts(state_update.deployed_contracts),
     declared_classes |-> DeclaredClasses(state_update.declared_classes),
     deprecated_declared_classes |-> state_update.cairo_0_declared_classes,
     nonces |-> ContractNonces(state_update.nonces),
     storage_diffs |-> StorageDiffs(state_update.storage_updates),
     replaced_classes |-> <<>>]

get_state_update(bs, block_id, fault) ==
    LET r == block_state_update(bs, IntoBlockId(block_id), fault)
    IN  IF r.tag = "Err" THEN Err(StateUpdateError(r.val))
        ELSE Ok([block_hash |-> FeltHex(r.val.block_hash),
                 new_root |-> FeltHex(r.val.new_root),
                 old_root |-> FeltHex(r.val.old_root),
                 state_diff |-> ThinStateDiff(r.val)])

\* ---- JsonRpcHandler: the other backed endpoints -------------------------------------
\* The `?` conversion of a backend error into an ApiError.
FromCoreError(err) ==
    CASE err = NoBlock -> ApiError("BlockNotFound")
      [] err = ContractNotFound -> ApiError("ContractNotFound")
      [] err = ClassNotFound -> ApiError("ClassHashNotFound")
      [] OTHER -> StarknetDevnetError(err)

\* ContractClass::try_from on the class the backend loaded; converts is whether
\* the class converts.
ContractClassTryInto(class_hash, converts) ==
    IF converts THEN Ok([contract_class_of |-> class_hash])
    ELSE Err(StarknetDevnetError(CoreError("ConversionError", "-", "-")))

get_class_hash_at(bs, block_id, contract_address) ==
    LET r == backend_get_class_hash_at(bs, IntoBlockId(block_id), contract_address)
    IN  IF r.tag = "Err" THEN Err(FromCoreError(r.val)) ELSE Ok(r.val)

\* The backend's error passed on through `?` like get_class_hash_at's.
get_block_txs_count_translated(bs, block_id, fault) ==
    LET num_trans_count == backend_get_block_txs_count(bs, IntoBlockId(block_id), fault)
    IN  IF num_trans_count.tag = "Ok" THEN Ok(num_trans_count.val)
        ELSE Err(FromCoreError(num_trans_count.val))

get_block_txs_count(bs, block_id, fault) ==
    LET num_trans_count == backend_get_block_txs_count(bs, IntoBlockId(block_id), fault)
    IN  IF num_trans_count.tag = "Ok" THEN Ok(num_trans_count.val)
        ELSE Err(ApiError("NoBlocks"))

\* The match with the number form of a block identifier left to the last arm.
CallResponseHashOnly(r) ==
    IF r.tag = "Ok" THEN Ok([i \in 1..Len(r.val) |-> FeltHex(r.val[i])])
    ELSE IF r.val = NoneContractState THEN Err(ApiError("ContractNotFound"))
    ELSE IF r.val = BlockIdHashUnimplementedError THEN Err(ApiError("OnlyLatestBlock"))
    ELSE Err(ApiError("ContractError"))

\* The match without the arm for a contract that has no state.
CallResponseNoStateArm(r) ==
    IF r.tag = "Ok" THEN Ok([i \in 1..Len(r.val) |-> FeltHex(r.val[i])])
    ELSE IF r.val \in {BlockIdHashUnimplementedError, BlockIdNumberUnimplementedError}
         THEN Err(ApiError("OnlyLatestBlock"))
    ELSE Err(ApiError("ContractError"))

\* The match with get_state_update's last arm in place of its own.
CallResponseWrapping(r) ==
    IF r.tag = "Ok" THEN Ok([i \in 1..Len(r.val) |-> FeltHex(r.val[i])])
    ELSE IF r.val = NoneContractState THEN Err(ApiError("ContractNotFound"))
    ELSE IF r.val \in {BlockIdHashUnimplementedError, BlockIdNumberUnimplementedError}
         THEN Err(ApiError("OnlyLatestBlock"))
    ELSE Err(StarknetDevnetError(r.val))

\* The match over the backend's answer to call.
CallResponse(r) ==
    IF r.tag = "Ok" THEN Ok([i \in 1..Len(r.val) |-> FeltHex(r.val[i])])
    ELSE IF r.val = NoneContractState THEN Err(ApiError("ContractNotFound"))
    ELSE IF r.val \in {BlockIdHashUnimplementedError, BlockIdNumberUnimplementedError}
         THEN Err(ApiError("OnlyLatestBlock"))
    ELSE Err(ApiError("ContractError"))

call(bs, block_id, contract_address, engine) ==
    CallResponse(backend_call(bs, IntoBlockId(block_id), contract_address, engine))

block_number(bs) == Ok(backend_block_number(bs))

\* chain_id reading the latest block's hash in place of the chain identifier.
chain_id_of_latest_block(c) == Ok(ToPrefixedHexStr(<<BlockHashOf(Len(blocks))>>))

chain_id(c) == Ok(ToPrefixedHexStr(ChainIdToFelt(c)))

\* get_class awaiting starknet.read() like the plain reads.
LockOfSharedGetClass(endpoint) ==
    IF endpoint \in {"get_class_at", "get_class_hash_at"} THEN "write" ELSE "read"

\* Which access to the ledger an endpoint awaits: starknet.read() or
\* starknet.write().
LockOf(endpoint) ==
    CASE endpoint = "get_state_update" -> "read"
      [] endpoint = "get_class" -> "write"
      [] endpoint = "get_class_at" -> "write"
      [] endpoint = "get_class_hash_at" -> "write"
      [] endpoint = "get_block_txs_count" -> "read"
      [] endpoint = "call" -> "read"
      [] endpoint = "block_number" -> "read"
      [] endpoint = "chain_id" -> "read"

\* ---- requests ---------------------------------------------------------------------
Request(endpoint, block_id, arg) == [endpoint |-> endpoint, block_id |-> block_id, arg |-> arg]

NoBlockId == BlockId("-", 0)
NoRequest == Request("-", NoBlockId, "-")
NoResponse == [tag |-> "-", val |-> "-"]
NoEntry == [blocks |-> <<>>, class_cache |-> {}]

StateUpdateRequests == {Request("get_state_update", b, "-") : b \in ApiBlockIds}

BackedRequests ==
    StateUpdateRequests
        \cup {Request("get_block_txs_count", b, "-") : b \in ApiBlockIds}
        \cup {Request("get_class", b, c) : b \in ApiBlockIds, c \in ClassHashes}
        \cup {Request(e, b, a) : e \in {"get_class_at", "get_class_hash_at", "call"},
                                 b \in ApiBlockIds, a \in Addresses}
        \cup {Request(e, NoBlockId, "-") : e \in {"block_number", "chain_id"}}

UnlockedEndpoints ==
    {"get_block_with_tx_hashes", "get_block_with_full_txs", "get_storage_at",
     "get_transaction_by_hash", "get_transaction_by_block_id_and_index",
     "get_transaction_receipt_by_hash", "estimate_fee", "block_hash_and_number",
     "pending_transactions", "syncing", "get_events", "get_nonce"}

\* Inputs of the endpoints that take no ledger access: a block identifier, a
\* contract address, and a key, hash, index, filter or transaction list x.
OpaqueInputs == {"x1", "x2"}

Unlocked(endpoint, block_id, contract_address, x) ==
    CASE endpoint = "get_block_with_tx_hashes" -> get_block_with_tx_hashes(block_id)
      [] endpoint = "get_block_with_full_txs" -> get_block_with_full_txs(block_id)
      [] endpoint = "get_storage_at" -> get_storage_at(contract_address, x, block_id)
      [] endpoint = "get_transaction_by_hash" -> get_transaction_by_hash(x)
      [] endpoint = "get_transaction_by_block_id_and_index" ->
           get_transaction_by_block_id_and_index(block_id, x)
      [] endpoint = "get_transaction_receipt_by_hash" -> get_transaction_receipt_by_hash(x)
      [] endpoint = "estimate_fee" -> estimate_fee(block_id, x)
      [] endpoint = "block_hash_and_number" -> block_hash_and_number
      [] endpoint = "pending_transactions" -> pending_transactions
      [] endpoint = "syncing" -> syncing
      [] endpoint = "get_events" -> get_events(x)
      [] endpoint = "get_nonce" -> get_nonce(block_id, contract_address)

\* The inputs <<block_id, contract_address, x>> these endpoints are called
\* with: one of each wire form of a block identifier.
UnlockedInputs ==
    {<<BlockId("latest", 0), "A", "x1">>,
     <<BlockId("pending", 0), "B", "x2">>,
     <<BlockId("block_hash", 1), "A", "x2">>,
     <<BlockId("block_number", MaxBlocks), "B", "x1">>}

\* ---- the machine ------------------------------------------------------------------
Init ==
    /\ blocks = <<>>
    /\ chain = ConfiguredChain
    /\ class_cache = {}
    /\ builds = [c \in ClassHashes |-> 0]
    /\ readers = {}
    /\ writer = 0
    /\ queue = <<>>
    /\ pc = [p \in Tasks |-> "idle"]
    /\ req = [p \in Tasks |-> NoRequest]
    /\ res = [p \in Tasks |-> NoResponse]
    /\ acquired = [p \in Tasks |-> 0]
    /\ ops = [p \in Tasks |-> 0]
    /\ entry = [p \in Tasks |-> NoEntry]

LockFree == writer = 0 /\ readers = {}

\* A write guard that outlives the call: only read guards are dropped.
ReleaseKeepingWriteGuard(p) ==
    /\ readers' = readers \ {p}
    /\ writer' = writer
    /\ entry' = [entry EXCEPT ![p] = NoEntry]

\* A read guard that outlives the call: only write guards are dropped.
ReleaseKeepingReadGuard(p) ==
    /\ readers' = readers
    /\ writer' = IF writer = p THEN 0 ELSE writer
    /\ entry' = [entry EXCEPT ![p] = NoEntry]

\* The task's ledger guard is dropped.
Release(p) ==
    /\ readers' = readers \ {p}
    /\ writer' = IF writer = p THEN 0 ELSE writer
    /\ entry' = [entry EXCEPT ![p] = NoEntry]

\* The task invokes one operation of the backend.
Operate(p) == ops' = [ops EXCEPT ![p] = @ + 1]

\* The task returns r to its caller.
Finish(p, r) ==
    /\ res' = [res EXCEPT ![p] = r]
    /\ pc' = [pc EXCEPT ![p] = "done"]

\* The endpoints answering under a read guard, like block_number does.
ServeUnlockedUnderGuard(p) ==
    /\ pc[p] = "idle"
    /\ writer = 0 /\ queue = <<>>
    /\ \E e \in UnlockedEndpoints :
          \E in \in UnlockedInputs :
              /\ req' = [req EXCEPT ![p] = Request(e, NoBlockId, "-")]
              /\ Finish(p, Unlocked(e, in[1], in[2], in[3]))
    /\ UNCHANGED <<queue, blocks, chain, class_cache, builds, readers, writer, acquired, ops, entry>>

\* An endpoint that takes no ledger access answers within the call.
ServeUnlocked(p) ==
    /\ pc[p] = "idle"
    /\ \E e \in UnlockedEndpoints :
          \E in \in UnlockedInputs :
              /\ req' = [req EXCEPT ![p] = Request(e, NoBlockId, "-")]
              /\ Finish(p, Unlocked(e, in[1], in[2], in[3]))
    /\ UNCHANGED <<queue, blocks, chain, class_cache, builds, readers, writer, acquired, ops, entry>>

\* A backed endpoint is called and reaches its .read().await or .write().await.
Dispatch(p, r) ==
    /\ pc[p] = "idle"
    /\ req' = [req EXCEPT ![p] = r]
    /\ pc' = [pc EXCEPT ![p] = "waiting"]
    /\ queue' = Append(queue, p)
    /\ UNCHANGED <<blocks, chain, class_cache, builds, readers, writer, res,
                   acquired, ops, entry>>

\* Exclusive access granted as soon as no other task holds it exclusively,
\* readers or not.
AcquireOverReaders(p) ==
    /\ pc[p] = "waiting"
    /\ queue # <<>> /\ Head(queue) = p
    /\ writer = 0
    /\ IF LockOf(req[p].endpoint) = "read"
       THEN readers' = readers \cup {p} /\ writer' = writer
       ELSE writer' = p /\ readers' = readers
    /\ pc' = [pc EXCEPT ![p] = "holding"]
    /\ acquired' = [acquired EXCEPT ![p] = @ + 1]
    /\ entry' = [entry EXCEPT ![p] = [blocks |-> blocks, class_cache |-> class_cache]]
    /\ queue' = Tail(queue)
    /\ UNCHANGED <<blocks, chain, class_cache, builds, req, res, ops>>

\* The lock grants the access the endpoint awaits to the task that has waited
\* longest, once that access is compatible with the accesses held.
Acquire(p) ==
    /\ pc[p] = "waiting"
    /\ queue # <<>> /\ Head(queue) = p
    /\ IF LockOf(req[p].endpoint) = "read"
       THEN /\ writer = 0
            /\ readers' = readers \cup {p}
            /\ writer' = writer
       ELSE /\ LockFree
            /\ writer' = p
            /\ readers' = readers
    /\ pc' = [pc EXCEPT ![p] = "holding"]
    /\ acquired' = [acquired EXCEPT ![p] = @ + 1]
    /\ entry' = [entry EXCEPT ![p] = [blocks |-> blocks, class_cache |-> class_cache]]
    /\ queue' = Tail(queue)
    /\ UNCHANGED <<blocks, chain, class_cache, builds, req, res, ops>>

Holding(p, endpoint) == pc[p] = "holding" /\ req[p].endpoint = endpoint

RunStateUpdate(p) ==
    /\ Holding(p, "get_state_update")
    /\ \E fault \in BackendFaults :
          Finish(p, get_state_update(blocks, req[p].block_id, fault))
    /\ Operate(p)
    /\ Release(p)
    /\ UNCHANGED <<queue, blocks, chain, class_cache, builds, req, acquired>>

RunBlockTxsCount(p) ==
    /\ Holding(p, "get_block_txs_count")
    /\ \E fault \in BackendFaults :
          Finish(p, get_block_txs_count(blocks, req[p].block_id, fault))
    /\ Operate(p)
    /\ Release(p)
    /\ UNCHANGED <<queue, blocks, chain, class_cache, builds, req, acquired>>

\* call loading the compiled class of the contract it executes into the cache.
RunCallCaching(p) ==
    /\ Holding(p, "call")
    /\ \E engine \in EngineOutcomes :
          Finish(p, call(blocks, req[p].block_id, req[p].arg, engine))
    /\ class_cache' =
          IF req[p].arg \in DeployedBy(blocks, Len(blocks))
          THEN class_cache \cup {ClassHashOf(blocks, Len(blocks), req[p].arg)}
          ELSE class_cache
    /\ Operate(p)
    /\ Release(p)
    /\ UNCHANGED <<queue, blocks, chain, builds, req, acquired>>

RunCall(p) ==
    /\ Holding(p, "call")
    /\ \E engine \in EngineOutcomes :
          Finish(p, call(blocks, req[p].block_id, req[p].arg, engine))
    /\ Operate(p)
    /\ Release(p)
    /\ UNCHANGED <<queue, blocks, chain, class_cache, builds, req, acquired>>

RunBlockNumber(p) ==
    /\ Holding(p, "block_number")
    /\ Finish(p, block_number(blocks))
    /\ Operate(p)
    /\ Release(p)
    /\ UNCHANGED <<queue, blocks, chain, class_cache, builds, req, acquired>>

RunChainId(p) ==
    /\ Holding(p, "chain_id")
    /\ Finish(p, chain_id(chain))
    /\ Operate(p)
    /\ Release(p)
    /\ UNCHANGED <<queue, blocks, chain, class_cache, builds, req, acquired>>

RunClassHashAt(p) ==
    /\ Holding(p, "get_class_hash_at")
    /\ Finish(p, get_class_hash_at(blocks, req[p].block_id, req[p].arg))
    /\ Operate(p)
    /\ Release(p)
    /\ UNCHANGED <<queue, blocks, chain, class_cache, builds, req, acquired>>

\* get_class / get_class_at, first part: the backend looks the class up.  A
\* failed lookup returns through `?`; otherwise the class's artifact is in the
\* cache or has to be built.
ClassResolve(p) ==
    /\ pc[p] = "holding"
    /\ req[p].endpoint \in {"get_class", "get_class_at"}
    /\ LET found == ClassLookup(blocks, req[p])
       IN  IF found.tag = "Err"
           THEN /\ Finish(p, Err(FromCoreError(found.val)))
                /\ Release(p)
           ELSE /\ pc' = [pc EXCEPT ![p] =
                            IF found.val \in class_cache THEN "loaded" ELSE "miss"]
                /\ UNCHANGED <<res, readers, writer, entry>>
    /\ Operate(p)
    /\ UNCHANGED <<queue, blocks, chain, class_cache, builds, req, acquired>>

\* Second part: the artifact is built and enters the cache.
ClassMaterialize(p) ==
    /\ pc[p] = "miss"
    /\ LET class_hash == ClassLookup(blocks, req[p]).val
       IN  /\ class_cache' = class_cache \cup {class_hash}
           /\ builds' = [builds EXCEPT ![class_hash] = @ + 1]
    /\ pc' = [pc EXCEPT ![p] = "loaded"]
    /\ UNCHANGED <<queue, blocks, chain, readers, writer, req, res, acquired, ops, entry>>

\* Last part: .try_into()? on the loaded class, then the guard is dropped.
ClassConvert(p) ==
    /\ pc[p] = "loaded"
    /\ \E converts \in BOOLEAN :
          Finish(p, ContractClassTryInto(ClassLookup(blocks, req[p]).val, converts))
    /\ Release(p)
    /\ UNCHANGED <<queue, blocks, chain, class_cache, builds, req, acquired, ops>>

\* The caller takes the response; the task is free for the next request.
Return(p) ==
    /\ pc[p] = "done"
    /\ pc' = [pc EXCEPT ![p] = "idle"]
    /\ req' = [req EXCEPT ![p] = NoRequest]
    /\ res' = [res EXCEPT ![p] = NoResponse]
    /\ acquired' = [acquired EXCEPT ![p] = 0]
    /\ ops' = [ops EXCEPT ![p] = 0]
    /\ UNCHANGED <<queue, blocks, chain, class_cache, builds, readers, writer, entry>>

\* ---- the ledger evolves -----------------------------------------------------------
\* A transaction is applied and its block is mined, under exclusive access.
MineBlock(u) ==
    /\ Len(blocks) < MaxBlocks
    /\ LockFree
    /\ Keys(u.deployed_contracts) \cap DeployedBy(blocks, Len(blocks)) = {}
    /\ (Keys(u.declared_classes) \cup Range(u.cairo_0_declared_classes))
          \cap DeclaredBy(blocks, Len(blocks)) = {}
    /\ blocks' = Append(blocks, NewBlock(Len(blocks) + 1, u))
    /\ UNCHANGED <<queue, chain, class_cache, builds, readers, writer, pc, req, res,
                   acquired, ops, entry>>

MineScripted == \E u \in ScriptedUpdates : MineBlock(u)

\* One block of a ledger carries any state update of at most MaxChanges entries.
MineGenerated ==
    /\ Len(blocks) < MaxBlocks
    /\ LockFree
    /\ \A i \in DOMAIN blocks : blocks[i].update \in ScriptedUpdates
    /\ \E u \in RawUpdates \ ScriptedUpdates : MineBlock(u)

\* ---- specifications ---------------------------------------------------------------
\* The steps of task p through backed endpoints, its requests drawn from
\* requests.
BackedStep(p, requests) ==
    \/ \E r \in requests : Dispatch(p, r)
    \/ Acquire(p)
    \/ RunStateUpdate(p)
    \/ RunBlockTxsCount(p)
    \/ RunCall(p)
    \/ RunBlockNumber(p)
    \/ RunChainId(p)
    \/ RunClassHashAt(p)
    \/ ClassResolve(p)
    \/ ClassMaterialize(p)
    \/ ClassConvert(p)
    \/ Return(p)

\* The steps of task p through any endpoint.
TaskStep(p, requests) == ServeUnlocked(p) \/ BackedStep(p, requests)

\* Every endpoint with every input, one call after the other, while scripted
\* blocks are mined.
Next == MineScripted \/ TaskStep(1, BackedRequests)

Spec == Init /\ [][Next]_vars

\* The requests of concurrent tasks: every backed endpoint on the latest block,
\* about contract A or either class, and call on a block given by hash as well.
LockRequests ==
    {r \in BackedRequests :
        /\ r.arg # "B"
        /\ \/ r.block_id.form \in {"latest", "-"}
           \/ r.endpoint = "call" /\ r.block_id = BlockId("block_hash", 1)}

\* All tasks call backed endpoints concurrently while scripted blocks are
\* mined.
NextLock == MineScripted \/ \E p \in Tasks : BackedStep(p, LockRequests)

SpecLock == Init /\ [][NextLock]_vars

\* The requests beside which the endpoints without ledger access are called:
\* one that takes the ledger exclusively and one that shares it.
StubRequests ==
    {Request("get_class", BlockId("latest", 0), "C"),
     Request("block_number", NoBlockId, "-")}

\* All tasks call the endpoints without ledger access, beside tasks that
\* hold the ledger or wait for it.
NextStub ==
    \/ MineScripted
    \/ \E p \in Tasks :
          \/ ServeUnlocked(p)
          \/ \E r \in StubRequests : Dispatch(p, r)
          \/ Acquire(p)
          \/ RunBlockNumber(p)
          \/ ClassResolve(p)
          \/ ClassMaterialize(p)
          \/ ClassConvert(p)
          \/ Return(p)

SpecStub == Init /\ [][NextStub]_vars

\* What a task that holds access does next, up to its return.
Progress(p) ==
    \/ RunStateUpdate(p)
    \/ RunBlockTxsCount(p)
    \/ RunCall(p)
    \/ RunBlockNumber(p)
    \/ RunChainId(p)
    \/ RunClassHashAt(p)
    \/ ClassResolve(p)
    \/ ClassMaterialize(p)
    \/ ClassConvert(p)

\* The lock serves its waiting tasks in turn and the runtime keeps polling a
\* task that can go on: a grant or a step that stays possible is taken.
Fairness == \A p \in Tasks : WF_vars(Acquire(p)) /\ WF_vars(Progress(p))

\* A mix of shared and exclusive queries with success and error paths.
LiveRequests ==
    {Request("get_state_update", BlockId("latest", 0), "-"),
     Request("block_number", NoBlockId, "-"),
     Request("get_class", BlockId("latest", 0), "C"),
     Request("get_class_hash_at", BlockId("latest", 0), "A")}

NextLive ==
    \/ MineScripted
    \/ \E p \in Tasks :
          \/ \E r \in LiveRequests : Dispatch(p, r)
          \/ Acquire(p)
          \/ RunStateUpdate(p)
          \/ RunBlockNumber(p)
          \/ RunClassHashAt(p)
          \/ ClassResolve(p)
          \/ ClassMaterialize(p)
          \/ ClassConvert(p)
          \/ Return(p)

\* The concurrent tasks under fair scheduling.
SpecLive == Init /\ [][NextLive]_vars /\ Fairness

\* One task asks for state updates of ledgers of generated blocks.
NextDiff ==
    \/ MineScripted
    \/ MineGenerated
    \/ \E r \in StateUpdateRequests : Dispatch(1, r)
    \/ Acquire(1)
    \/ RunStateUpdate(1)
    \/ Return(1)

SpecDiff == Init /\ [][NextDiff]_vars

\* ---- claims -----------------------------------------------------------------------
Done(p, endpoint) == pc[p] = "done" /\ req[p].endpoint = endpoint

\* Task p completes its endpoint call in this step.
Completes(p, endpoint) == Holding(p, endpoint) /\ pc'[p] = "done"

TargetBlock(p) == ResolveBlock(blocks, IntoBlockId(req[p].block_id))

\* C1: whenever get_state_update completes for a block identifier (latest,
\* pending, by hash or by number) that resolves to no block of the ledger, its
\* response is the error BlockNotFound.
C1_AbsentBlockIsBlockNotFound ==
    [][\A p \in Tasks :
          Completes(p, "get_state_update") /\ TargetBlock(p) = 0
              => res'[p] = Err(ApiError("BlockNotFound"))]_vars

\* A ledger with a block, and a state update was asked by an identifier that
\* names none of its blocks.
C1_Witness ==
    \E p \in Tasks :
        /\ Done(p, "get_state_update")
        /\ blocks # <<>>
        /\ TargetBlock(p) = 0
        /\ res[p] = Err(ApiError("BlockNotFound"))

\* C2: a call by block hash or block number is answered OnlyLatestBlock,
\* whether or not the block or the contract exists.
C2_HashOrNumberIsOnlyLatestBlock ==
    \A p \in Tasks :
        Done(p, "call") /\ req[p].block_id.form \in {"block_hash", "block_number"}
            => res[p] = Err(ApiError("OnlyLatestBlock"))

\* A call by the number of an existing block to a deployed contract.
C2_Witness ==
    \E p \in Tasks :
        /\ Done(p, "call")
        /\ req[p].block_id.form = "block_number"
        /\ TargetBlock(p) # 0
        /\ req[p].arg \in DeployedBy(blocks, Len(blocks))
        /\ res[p] = Err(ApiError("OnlyLatestBlock"))

\* C3: whenever call completes for latest or pending and the target contract
\* has no state in the ledger, its response is ContractNotFound.
C3_MissingContractIsContractNotFound ==
    [][\A p \in Tasks :
          /\ Completes(p, "call")
          /\ req[p].block_id.form \in {"latest", "pending"}
          /\ req[p].arg \notin DeployedBy(blocks, Len(blocks))
          => res'[p] = Err(ApiError("ContractNotFound"))]_vars

\* A populated ledger was called at a contract it does not hold.
C3_Witness ==
    \E p \in Tasks :
        /\ Done(p, "call")
        /\ req[p].block_id.form = "latest"
        /\ DeployedBy(blocks, Len(blocks)) # {}
        /\ req[p].arg \notin DeployedBy(blocks, Len(blocks))
        /\ res[p] = Err(ApiError("ContractNotFound"))

\* C4: under every interleaving of get_class calls the artifact of a class is
\* built at most once, it is in the cache exactly when it was built, and a task
\* that has loaded or returned a class finds it built once.
C4_CacheMaterializedOnce ==
    /\ \A c \in ClassHashes :
          /\ builds[c] <= 1
          /\ c \in class_cache <=> builds[c] = 1
    /\ \A p \in Tasks :
          \/ pc[p] = "loaded"
          \/ Done(p, "get_class") /\ res[p].tag = "Ok"
          => builds[ClassLookup(blocks, req[p]).val] = 1

\* Two tasks asked for the same class: one has returned it, the other waited
\* and has found it loaded.
C4_Witness ==
    \E p, q \in Tasks :
        /\ p # q
        /\ req[p] = req[q]
        /\ Done(p, "get_class") /\ res[p].tag = "Ok"
        /\ pc[q] = "loaded"
        /\ builds[req[p].arg] = 1

\* The error each stub endpoint is documented to return.
C5_FixedError ==
    [get_block_with_tx_hashes |-> "BlockNotFound",
     get_block_with_full_txs |-> "BlockNotFound",
     get_storage_at |-> "ContractNotFound",
     get_transaction_by_hash |-> "TransactionNotFound",
     get_transaction_receipt_by_hash |-> "TransactionNotFound",
     get_transaction_by_block_id_and_index |-> "InvalidTransactionIndexInBlock",
     estimate_fee |-> "ContractError",
     block_hash_and_number |-> "NoBlocks",
     get_events |-> "InvalidContinuationToken",
     get_nonce |-> "BlockNotFound"]

\* C5: every stub endpoint returns its one fixed error, for every input and
\* ledger, and never a success.
C5_StubsReturnFixedError ==
    \A p \in Tasks :
        pc[p] = "done" /\ req[p].endpoint \in DOMAIN C5_FixedError
            => res[p] = Err(ApiError(C5_FixedError[req[p].endpoint]))

\* get_nonce has answered on a ledger that holds a block and a contract.
C5_Witness ==
    \E p \in Tasks :
        /\ Done(p, "get_nonce")
        /\ DeployedBy(blocks, Len(blocks)) # {}
        /\ res[p].tag = "Err"

\* C6: syncing returns the success value false and pending_transactions the
\* empty sequence as success, whatever the ledger and the other tasks do.
C6_SyncingFalsePendingEmpty ==
    \A p \in Tasks :
        /\ Done(p, "syncing") => res[p].tag = "Ok" /\ res[p].val.value = FALSE
        /\ Done(p, "pending_transactions") => res[p].tag = "Ok" /\ Len(res[p].val) = 0

\* pending_transactions has answered its empty sequence beside a task that
\* holds the ledger exclusively.
C6_Witness ==
    \E p, q \in Tasks :
        /\ Done(p, "pending_transactions")
        /\ res[p] = Ok(<<>>)
        /\ writer = q

\* Addresses with at least one changed storage key in the block's state update.
ChangedAddresses(block) ==
    {a \in Addresses :
        \E i \in DOMAIN block.update.storage_updates :
            /\ block.update.storage_updates[i][1] = a
            /\ block.update.storage_updates[i][2] # <<>>}

\* C7: the storage_diffs of a returned state update hold one entry for each
\* address with a changed storage key in the target block, none for any other
\* address, and no address twice.
C7_OneStorageDiffPerAddress ==
    [][\A p \in Tasks :
          Completes(p, "get_state_update") /\ res'[p].tag = "Ok"
              => LET diffs == res'[p].val.state_diff.storage_diffs
                     changed == ChangedAddresses(blocks[TargetBlock(p)])
                 IN  /\ {diffs[i].address.felt : i \in 1..Len(diffs)} = changed
                     /\ Len(diffs) = Cardinality(changed)]_vars

\* A state update with two changed keys of one address was returned.
C7_Witness ==
    \E p \in Tasks :
        /\ Done(p, "get_state_update") /\ res[p].tag = "Ok"
        /\ LET diffs == res[p].val.state_diff.storage_diffs
           IN  Len(diffs) = 1 /\ Len(diffs[1].storage_entries) = 2

\* The storage writes of a map of maps, and of a storage_diffs sequence, as
\* the set of their (address, key, value) triples.
StorageTriples(m) ==
    UNION {{<<m[i][1], m[i][2][j][1], m[i][2][j][2]>> : j \in 1..Len(m[i][2])} :
              i \in 1..Len(m)}

C8_DiffTriples(diffs) ==
    UNION {{<<diffs[i].address.felt, diffs[i].storage_entries[j].key.felt,
             diffs[i].storage_entries[j].value.felt>> :
               j \in 1..Len(diffs[i].storage_entries)} : i \in 1..Len(diffs)}

RECURSIVE C8_Entries(_)
C8_Entries(diffs) ==
    IF diffs = <<>> THEN 0 ELSE Len(Head(diffs).storage_entries) + C8_Entries(Tail(diffs))

\* C8: the state_diff of a returned state update holds exactly the backend's
\* changes of the target block in each category: as many entries as the
\* backend has, each with the backend's values in its own fields.
C8_DiffCarriesBackendChanges ==
    [][\A p \in Tasks :
          Completes(p, "get_state_update") /\ res'[p].tag = "Ok"
              => LET d == res'[p].val.state_diff
                     u == blocks[TargetBlock(p)].update
                 IN  /\ Len(d.deployed_contracts) = Len(u.deployed_contracts)
                     /\ {<<e.address.felt, e.class_hash>> : e \in Range(d.deployed_contracts)}
                           = Range(u.deployed_contracts)
                     /\ Len(d.declared_classes) = Len(u.declared_classes)
                     /\ {<<e.class_hash, e.compiled_class_hash.felt>> :
                            e \in Range(d.declared_classes)} = Range(u.declared_classes)
                     /\ Len(d.nonces) = Len(u.nonces)
                     /\ {<<e.contract_address.felt, e.nonce>> : e \in Range(d.nonces)}
                           = Range(u.nonces)
                     /\ C8_Entries(d.storage_diffs) = SumLen(u.storage_updates)
                     /\ C8_DiffTriples(d.storage_diffs) = StorageTriples(u.storage_updates)
                     /\ Len(d.deprecated_declared_classes) = Len(u.cairo_0_declared_classes)
                     /\ Range(d.deprecated_declared_classes)
                           = Range(u.cairo_0_declared_classes)]_vars

\* The scenario of the specification was returned for "latest".
C8_Witness ==
    \E p \in Tasks :
        /\ Done(p, "get_state_update") /\ res[p].tag = "Ok"
        /\ req[p].block_id.form = "latest"
        /\ res[p].val.state_diff =
              [deployed_contracts |->
                  <<[address |-> ContractAddressHex("A"), class_hash |-> "C"]>>,
               storage_diffs |->
                  <<[address |-> ContractAddressHex("A"),
                     storage_entries |->
                        <<[key |-> PatriciaKeyHex("K"), value |-> FeltHex("V")]>>]>>,
               nonces |-> <<[contract_address |-> ContractAddressHex("A"), nonce |-> "n1"]>>,
               declared_classes |-> <<>>,
               deprecated_declared_classes |-> <<>>,
               replaced_classes |-> <<>>]

\* C9: any two chain_id calls, whatever runs between or beside them, return
\* the same value.
C9_ChainIdStable ==
    \A p, q \in Tasks :
        Done(p, "chain_id") /\ Done(q, "chain_id") => res[p] = res[q]

\* Two chain_id calls have answered, with a block mined and a class artifact
\* built since the node started.
C9_Witness ==
    \E p, q \in Tasks :
        /\ p # q
        /\ Done(p, "chain_id") /\ Done(q, "chain_id")
        /\ res[p].tag = "Ok"
        /\ blocks # <<>>
        /\ class_cache # {}

C10_Errors == {ApiError("ContractNotFound"), ApiError("OnlyLatestBlock"), ApiError("ContractError")}

\* C10: a call returns a sequence of felts, ContractNotFound, OnlyLatestBlock
\* or ContractError and nothing else; and whatever the engine answers to a
\* call in flight, a failure of the backend other than the missing contract
\* state and the two unsupported block forms is answered ContractError.
C10_CallOutcomesClosed ==
    \A p \in Tasks :
        /\ Done(p, "call") =>
              \/ res[p].tag = "Err" /\ res[p].val \in C10_Errors
              \/ /\ res[p].tag = "Ok"
                 /\ \A i \in 1..Len(res[p].val) : res[p].val[i].hex = "FeltHex"
        /\ Holding(p, "call") =>
              \A engine \in EngineOutcomes :
                  LET b == backend_call(blocks, IntoBlockId(req[p].block_id), req[p].arg, engine)
                  IN  /\ b.tag = "Err"
                      /\ b.val \notin {NoneContractState, BlockIdHashUnimplementedError,
                                       BlockIdNumberUnimplementedError}
                      => call(blocks, req[p].block_id, req[p].arg, engine)
                            = Err(ApiError("ContractError"))

\* A call to a deployed contract on the latest block failed in the engine and
\* was answered ContractError.
C10_Witness ==
    \E p \in Tasks :
        /\ Done(p, "call")
        /\ req[p].block_id.form = "latest"
        /\ req[p].arg \in DeployedBy(blocks, Len(blocks))
        /\ res[p] = Err(ApiError("ContractError"))

\* Every cause a backend query can fail with.
C11_Causes ==
    BackendFaults \cup OtherFailures
        \cup {NoBlock, ContractNotFound, ClassNotFound, NoneContractState}

\* C11: get_block_txs_count returns a count or NoBlocks and nothing else; and
\* for a call in flight, whatever strikes the backend, the answer is the
\* backend's count if the backend succeeds and NoBlocks if it fails.
C11_TxsCountOrNoBlocks ==
    \A p \in Tasks :
        /\ Done(p, "get_block_txs_count") =>
              \/ res[p].tag = "Ok" /\ res[p].val \in Nat
              \/ res[p] = Err(ApiError("NoBlocks"))
        /\ Holding(p, "get_block_txs_count") =>
              \A fault \in C11_Causes :
                  LET b == backend_get_block_txs_count(
                               blocks, IntoBlockId(req[p].block_id), fault)
                      r == get_block_txs_count(blocks, req[p].block_id, fault)
                  IN  /\ b.tag = "Ok" => r = Ok(b.val)
                      /\ b.tag = "Err" => r = Err(ApiError("NoBlocks"))

\* The count of a block given by its number was asked on a ledger that holds
\* the block, and the answer was NoBlocks.
C11_Witness ==
    \E p \in Tasks :
        /\ Done(p, "get_block_txs_count")
        /\ req[p].block_id.form = "block_number"
        /\ TargetBlock(p) # 0
        /\ res[p] = Err(ApiError("NoBlocks"))

C12_Exclusive == {"get_class", "get_class_at", "get_class_hash_at"}
C12_Shared == {"get_state_update", "call", "block_number", "chain_id", "get_block_txs_count"}

\* Task p holds access to the ledger.
HoldsAccess(p) == p \in readers \/ writer = p

\* C12: a get_class, get_class_at or get_class_hash_at query that is past its
\* lock acquisition holds access alone; a pure read query past its acquisition
\* holds shared access; and a pure read query at the head of the waiting
\* tasks is granted access whenever only pure read queries hold it.
C12_ExclusiveOrShared ==
    \A p \in Tasks :
        /\ pc[p] \in {"holding", "miss", "loaded"} => HoldsAccess(p)
        /\ HoldsAccess(p) /\ req[p].endpoint \in C12_Exclusive =>
              \A q \in Tasks \ {p} : ~HoldsAccess(q)
        /\ HoldsAccess(p) => (writer = p <=> req[p].endpoint \in C12_Exclusive)
        /\ HoldsAccess(p) => (p \in readers <=> req[p].endpoint \in C12_Shared)
        /\ /\ pc[p] = "waiting"
           /\ req[p].endpoint \in C12_Shared
           /\ Head(queue) = p
           /\ \A q \in Tasks : HoldsAccess(q) => req[q].endpoint \in C12_Shared
           => ENABLED Acquire(p)

\* A get_state_update and a call hold access at the same time.
C12_Witness ==
    \E p, q \in Tasks :
        /\ Holding(p, "get_state_update") /\ Holding(q, "call")
        /\ {p, q} \subseteq readers

\* C13: under fair scheduling every dispatched query, beside any mix of
\* shared and exclusive queries of the other tasks, reaches its terminal
\* result.
C13_EveryQueryTerminates ==
    \A p \in Tasks : (pc[p] = "waiting") ~> (pc[p] = "done" /\ res[p] # NoResponse)

\* A query waits for the ledger behind a task that holds it exclusively.
C13_Witness ==
    \E p, q \in Tasks :
        /\ p # q
        /\ pc[p] = "waiting"
        /\ writer = q

\* Task p's query is in flight: dispatched and not yet returned.
InFlight(p) == pc[p] \in {"waiting", "holding", "miss", "loaded"}

\* C14: a backed query is granted the ledger lock at most once and invokes at
\* most one backend operation; once it has its response, on the success path or
\* an error path, it has done both exactly once and holds no access; a task
\* that is idle or waiting holds none; and with no query in flight the lock is
\* idle.
C14_OneLockOneOperation ==
    /\ \A p \in Tasks :
          /\ acquired[p] <= 1 /\ ops[p] <= 1
          /\ pc[p] = "done" /\ req[p].endpoint \in C12_Exclusive \cup C12_Shared =>
                acquired[p] = 1 /\ ops[p] = 1
          /\ ~InFlight(p) \/ pc[p] = "waiting" => ~HoldsAccess(p)
    /\ (\A p \in Tasks : ~InFlight(p)) => LockFree

\* A get_class_at has returned an error and a call a success, and the lock is
\* idle.
C14_Witness ==
    \E p, q \in Tasks :
        /\ Done(p, "get_class_at") /\ res[p].tag = "Err"
        /\ Done(q, "call") /\ res[q].tag = "Ok"
        /\ LockFree

\* C15: when get_class, get_class_at or get_class_hash_at returns an error,
\* the class cache and the ledger are as the call found them when it was
\* granted access.
C15_ErrorLeavesCacheAndLedger ==
    [][\A p \in Tasks :
          /\ req[p].endpoint \in C12_Exclusive
          /\ pc[p] \in {"holding", "loaded"} /\ pc'[p] = "done"
          /\ res'[p].tag = "Err"
          => /\ class_cache' = entry[p].class_cache
             /\ blocks' = entry[p].blocks]_vars

\* Task p takes a step of the endpoint it serves.
StepOf(p, endpoints) ==
    /\ pc'[p] # pc[p]
    /\ req[p].endpoint \in endpoints \/ req'[p].endpoint \in endpoints

\* C16: no step of a pure read query or of an endpoint that takes no ledger
\* access changes the ledger or the class cache, whatever its outcome; no step
\* of any query changes the ledger; and the cache changes only in a step of a
\* get_class, get_class_at or get_class_hash_at query.
C16_ReadsLeaveLedgerAndCache ==
    [][/\ \A p \in Tasks :
             /\ StepOf(p, C12_Shared \cup UnlockedEndpoints) =>
                   blocks' = blocks /\ class_cache' = class_cache
             /\ StepOf(p, C12_Exclusive) => blocks' = blocks
       /\ class_cache' # class_cache =>
             \E p \in Tasks : StepOf(p, C12_Exclusive)]_vars

\* A call to a deployed contract has succeeded on a ledger none of whose
\* classes is in the cache.
C16_Witness ==
    \E p \in Tasks :
        /\ Done(p, "call") /\ res[p].tag = "Ok"
        /\ req[p].arg \in DeployedBy(blocks, Len(blocks))
        /\ class_cache = {}

\* C18: a failed get_state_update answers BlockNotFound or StarknetDevnetError
\* with the backend's error as its cause; and for a call in flight, whatever
\* error other than NoBlock the backend's block_state_update fails with, the
\* answer is StarknetDevnetError carrying that very error.
C18_OtherFailureIsWrapped ==
    \A p \in Tasks :
        /\ Done(p, "get_state_update") /\ res[p].tag = "Err" =>
              \/ res[p].val = ApiError("BlockNotFound")
              \/ \E fault \in BackendFaults \ {NoCause} :
                    res[p].val = StarknetDevnetError(fault)
        /\ Holding(p, "get_state_update") =>
              \A fault \in C11_Causes :
                  LET b == block_state_update(blocks, IntoBlockId(req[p].block_id), fault)
                  IN  b.tag = "Err" /\ b.val # NoBlock =>
                        get_state_update(blocks, req[p].block_id, fault)
                            = Err(StarknetDevnetError(b.val))

\* A state update of an existing block failed in the backend and the failure
\* came back wrapped.
C18_Witness ==
    \E p \in Tasks :
        /\ Done(p, "get_state_update")
        /\ req[p].block_id.form = "block_number"
        /\ TargetBlock(p) # 0
        /\ res[p].tag = "Err"
        /\ res[p].val.error = "StarknetDevnetError"
        /\ res[p].val.cause \in BackendFaults \ {NoCause}

\* C19: every state update returned by get_state_update, for every block and
\* ledger, has an empty replaced_classes.
C19_ReplacedClassesEmpty ==
    \A p \in Tasks :
        Done(p, "get_state_update") /\ res[p].tag = "Ok" =>
            res[p].val.state_diff.replaced_classes = <<>>

\* The state update of a block that deploys a contract and declares a class
\* was returned.
C19_Witness ==
    \E p \in Tasks :
        /\ Done(p, "get_state_update") /\ res[p].tag = "Ok"
        /\ res[p].val.state_diff.deployed_contracts # <<>>
        /\ res[p].val.state_diff.declared_classes # <<>>
        /\ res[p].val.state_diff.replaced_classes = <<>>

\* The response each endpoint without ledger access is documented to give.
C20_FixedResponse(endpoint) ==
    CASE endpoint = "pending_transactions" -> Ok(<<>>)
      [] endpoint = "syncing" -> Ok([SyncingOutput |-> "False", value |-> FALSE])
      [] OTHER -> Err(ApiError(C5_FixedError[endpoint]))

\* C20: a stub endpoint, pending_transactions or syncing that has answered was
\* never granted the lock nor queued for it, holds no access and gave its
\* fixed response; and an idle task can complete each of them at once in every
\* reachable state, also while another task holds exclusive access or tasks
\* wait for the lock.
C20_StubsNeedNoLock ==
    \A p \in Tasks :
        /\ pc[p] = "done" /\ req[p].endpoint \in UnlockedEndpoints =>
              /\ acquired[p] = 0 /\ ops[p] = 0
              /\ ~HoldsAccess(p)
              /\ p \notin Range(queue)
              /\ res[p] = C20_FixedResponse(req[p].endpoint)
        /\ pc[p] = "idle" =>
              \A e \in UnlockedEndpoints :
                  ENABLED (ServeUnlocked(p) /\ req'[p].endpoint = e /\ pc'[p] = "done")

\* get_nonce has answered while another task holds exclusive access to the
\* ledger.
C20_Witness ==
    \E p, q \in Tasks :
        /\ Done(p, "get_nonce")
        /\ res[p] = Err(ApiError("BlockNotFound"))
        /\ writer = q
        /\ pc[q] \in {"holding", "miss", "loaded"}

====
